---- MODULE Spec2Model ----
(***************************************************************************)
(* Model of job_scheduler.py: a persisted job queue and job history in     *)
(* jobs.json, updated by independent command-line invocations (submit,     *)
(* run, update, prioritize, clear) that serialise on an flock of jobs.lock.*)
(* Every locked load-mutate-save section of the source is one action; the  *)
(* run command spans several of them (launch, checkpoint, final update)    *)
(* with the lock released in between.                                      *)
(***************************************************************************)
EXTENDS Integers, Sequences, FiniteSets, TLC

VARIABLES
  queue,     \* jobs.json "job_queue": sequence of job records
  history,   \* jobs.json "job_history": sequence of job records
  procs,     \* OS process table: one entry per process ever started by Popen
  disp,      \* the run invocations in flight: position, job object, child
  issued,    \* history variable: the job_id returned by each submit, in order
  last,      \* history variable: the transaction that produced this state
  steps,     \* history variable: number of steps taken so far
  flock,     \* invocations holding the exclusive flock on jobs.lock
  mutex,     \* job_lock of each OS process: the invocation holding it, or 0
  inv        \* invocations followed statement by statement (SpecLock)

vars == <<queue, history, procs, disp, issued, last, steps, flock, mutex, inv>>

lockvars == <<flock, mutex, inv>>

\* ---------------------------------------------------------------- bounds
MaxSubmit == 3          \* submit invocations in one behaviour
MaxDisp == 2            \* run invocations simultaneously in flight
MaxSteps == 8           \* steps explored in one behaviour
MaxLiveSteps == 5       \* steps other than supervision in one fair behaviour
MaxInv == 3             \* invocations followed statement by statement
MaxLockSteps == 12      \* statements executed in one such behaviour

\* ---------------------------------------------------------------- inputs
None == 0               \* Python None / JSON null in the pid field
Users == {"alice"}
Commands == {"true"}
Priorities == {1}
Computes == {10}
Memories == {1, 3}       \* declared memory of a job
Available == {0, 2}     \* psutil.virtual_memory().available at dispatch
ReturnCodes == {0, 1}   \* exit code of the child
Statuses == {"queued", "running", "executed", "failed"}
Dispatchers == 1..MaxDisp
Invocations == 1..MaxInv
\* invocations 1 and 2 are threads of one process, 3 and 4 of the next
ProcOf(i) == (i + 1) \div 2
OsProcs == 1..ProcOf(MaxInv)
JobIds == 1..(MaxSubmit + 1)

\* ------------------------------------------------------------ Job class
\* Job.__init__; obj is the identity of the Python object (the ordinal of
\* the submit call that constructed it).  No operation reads it.
Job(job_id, user, command, priority, memory, compute, obj) ==
  [job_id |-> job_id, user |-> user, command |-> command,
   priority |-> priority, memory |-> memory, compute |-> compute,
   status |-> "queued", pid |-> None, obj |-> obj]

NoJob == Job(0, "", "", 0, 0, 0, 0)

\* The persisted fields of a record (to_dict without the identity).
Fields(j) ==
  [job_id |-> j.job_id, user |-> j.user, command |-> j.command,
   priority |-> j.priority, memory |-> j.memory, compute |-> j.compute,
   status |-> j.status, pid |-> j.pid]

\* ------------------------------------------------------- deque and list
popleft_keep(q) == q
popleft(q) == Tail(q)

appendleft(q, job) == <<job>> \o q

\* [j for j in job_history if j.job_id != job.job_id]
WithoutId(h, job_id) == SelectSeq(h, LAMBDA j: j.job_id # job_id)

\* remove the old record(s) of the job, append the updated one
ReplaceInHistory_append(h, job) == Append(h, job)
ReplaceInHistory(h, job) == Append(WithoutId(h, job.job_id), job)

\* deque.remove(x): drops the first element equal to x
RECURSIVE RemoveFirst(_, _)
RemoveFirst(q, x) ==
  IF q = <<>> THEN <<>>
  ELSE IF Head(q) = x THEN Tail(q)
  ELSE <<Head(q)>> \o RemoveFirst(Tail(q), x)

\* index of the first queue entry with this job_id, 0 when there is none
FirstWithId(q, job_id) ==
  IF \E i \in 1..Len(q): q[i].job_id = job_id
  THEN CHOOSE i \in 1..Len(q):
         /\ q[i].job_id = job_id
         /\ \A k \in 1..(i - 1): q[k].job_id # job_id
  ELSE 0

\* -------------------------------------------------------- OS processes
\* what psutil reports for a pid: "nosuch" is psutil.NoSuchProcess
ProcStatus(pid) ==
  IF pid \in 1..Len(procs)
  THEN (IF procs[pid].st = "gone" THEN "nosuch" ELSE procs[pid].st)
  ELSE "nosuch"

is_running(pid) == ProcStatus(pid) = "live"

Owned(pid) == \E d \in Dispatchers: disp[d].pc # "idle" /\ disp[d].pid = pid

\* ----------------------------------------------------------- operations
\* every step records itself in last and counts against the step budget
Did(op, id) ==
  /\ steps < MaxSteps
  /\ steps' = steps + 1
  /\ last' = [op |-> op, id |-> id]
  /\ UNCHANGED lockvars

\* a step of a run invocation supervising its child: recorded, not counted
Free(op, id) ==
  /\ last' = [op |-> op, id |-> id]
  /\ UNCHANGED <<steps, lockvars>>

IdleInv ==
  [pc |-> "idle", cmd |-> "none", status |-> "", job_id |-> 0,
   phase |-> "first", lq |-> <<>>, lh |-> <<>>, job |-> NoJob, pid |-> None,
   returncode |-> 0]

Idle == [pc |-> "idle", job |-> NoJob, pid |-> None, returncode |-> 0]

Init ==
  /\ queue = <<>>
  /\ history = <<>>
  /\ procs = <<>>
  /\ disp = [d \in Dispatchers |-> Idle]
  /\ issued = <<>>
  /\ last = [op |-> "init", id |-> 0]
  /\ steps = 0
  /\ flock = {}
  /\ mutex = [o \in OsProcs |-> 0]
  /\ inv = [i \in Invocations |-> IdleInv]

\* submit_job: job_id = len(job_history) + 1, appended to both collections
NewJobId_zero_based(h) == Len(h)
NewJobId(h) == Len(h) + 1

SubmitJob(user, command, priority, memory, compute) ==
  /\ Len(issued) < MaxSubmit
  /\ LET job_id == NewJobId(history)
         job == Job(job_id, user, command, priority, memory, compute,
                    Len(issued) + 1)
     IN /\ queue' = Append(queue, job)
        /\ history' = Append(history, job)
        /\ issued' = Append(issued, job_id)
        /\ Did("submit", job_id)
  /\ UNCHANGED <<procs, disp>>

\* ---------------------------------------------------------- run_next_job
\* job.status = 'running'; job.pid = process.pid
RunningJob(job, pid) == [job EXCEPT !.status = "running", !.pid = pid]

\* final status update: executed on exit code 0, failed otherwise; pid None
FinalJob_keeppid(job, returncode) ==
  [job EXCEPT !.status = IF returncode = 0 THEN "executed" ELSE "failed"]
FinalJob(job, returncode) ==
  [job EXCEPT !.status = IF returncode = 0 THEN "executed" ELSE "failed",
              !.pid = None]

\* lines 76, 115-116: empty queue, nothing is saved
RunNextEmpty(d) ==
  /\ disp[d].pc = "idle"
  /\ queue = <<>>
  /\ Did("empty", 0)
  /\ UNCHANGED <<queue, history, procs, disp, issued>>

\* lines 77-78, 111-114: the head does not fit; pushed back and saved
HeldQueue_tail(q) == Append(popleft(q), Head(q))
HeldQueue(q) == appendleft(popleft(q), Head(q))

RunNextHold(d, available) ==
  /\ disp[d].pc = "idle"
  /\ queue # <<>>
  /\ ~(available >= Head(queue).memory)
  /\ queue' = HeldQueue(queue)
  /\ Did("hold", Head(queue).job_id)
  /\ UNCHANGED <<history, procs, disp, issued>>

\* lines 77-85: the head fits; launched, recorded as running, lock released
RunNextAdmit(d, available) ==
  /\ disp[d].pc = "idle"
  /\ queue # <<>>
  /\ available >= Head(queue).memory
  /\ LET pid == Len(procs) + 1
         job == RunningJob(Head(queue), pid)
     IN /\ procs' = Append(procs, [st |-> "live", rc |-> 0,
                                   job_id |-> job.job_id, obj |-> job.obj])
        /\ queue' = popleft(queue)
        /\ history' = ReplaceInHistory(history, job)
        /\ disp' = [disp EXCEPT ![d] = [pc |-> "poll", job |-> job,
                                        pid |-> pid, returncode |-> 0]]
        /\ Did("launch", job.job_id)
  /\ UNCHANGED issued

\* lines 77-80: the head fits but subprocess.Popen raises (the process cannot
\* be started); the exception leaves the with block, which closes the lock
\* file, and nothing has been saved
RunNextLaunchFail(d, available) ==
  /\ disp[d].pc = "idle"
  /\ queue # <<>>
  /\ available >= Head(queue).memory
  /\ Did("launchfail", Head(queue).job_id)
  /\ UNCHANGED <<queue, history, procs, disp, issued>>

\* line 88: process.poll(); a terminated child is reaped here
PollStep(d) ==
  /\ disp[d].pc = "poll"
  /\ LET pid == disp[d].pid
     IN IF procs[pid].st = "live"
        THEN /\ disp' = [disp EXCEPT ![d].pc = "checkpoint"]
             /\ UNCHANGED procs
        ELSE /\ procs[pid].st = "zombie"
             /\ procs' = [procs EXCEPT ![pid].st = "gone"]
             /\ disp' = [disp EXCEPT ![d].pc = "final",
                                     ![d].returncode = procs[pid].rc]
  /\ UNCHANGED <<queue, history, issued>>

Poll(d) == PollStep(d) /\ Did("poll", 0)

\* lines 89-95: reload, re-write the running record, save
CheckpointStep(d) ==
  /\ disp[d].pc = "checkpoint"
  /\ history' = ReplaceInHistory(history, disp[d].job)
  /\ disp' = [disp EXCEPT ![d].pc = "poll"]
  /\ UNCHANGED <<queue, procs, issued>>

Checkpoint(d) == CheckpointStep(d) /\ Did("checkpoint", 0)

\* lines 98-109: reload, record the terminal status, save; the command ends
FinalOp(job) ==
  IF job.status = "executed" THEN "final_executed" ELSE "final_failed"

FinalizeStep(d) ==
  /\ disp[d].pc = "final"
  /\ history' = ReplaceInHistory(history,
                                  FinalJob(disp[d].job, disp[d].returncode))
  /\ disp' = [disp EXCEPT ![d] = Idle]
  /\ UNCHANGED <<queue, procs, issued>>

Finalize(d) ==
  /\ FinalizeStep(d)
  /\ LET job == FinalJob(disp[d].job, disp[d].returncode)
     IN Did(FinalOp(job), job.job_id)

\* ------------------------------------------------------------ environment
\* the child terminates with some exit code and waits to be reaped
ChildExit(pid, returncode) ==
  /\ pid \in 1..Len(procs)
  /\ procs[pid].st = "live"
  /\ procs' = [procs EXCEPT ![pid].st = "zombie", ![pid].rc = returncode]
  /\ Did("env", 0)
  /\ UNCHANGED <<queue, history, disp, issued>>

\* the run invocation is killed while it supervises its child (it holds no
\* file lock at these points); the child is orphaned
Crash(d) ==
  /\ disp[d].pc # "idle"
  /\ disp' = [disp EXCEPT ![d] = Idle]
  /\ Did("env", 0)
  /\ UNCHANGED <<queue, history, procs, issued>>

\* init reaps a terminated orphan
ReapOrphan(pid) ==
  /\ pid \in 1..Len(procs)
  /\ procs[pid].st = "zombie"
  /\ ~Owned(pid)
  /\ procs' = [procs EXCEPT ![pid].st = "gone"]
  /\ Did("env", 0)
  /\ UNCHANGED <<queue, history, disp, issued>>

\* ------------------------------------------------------ update_job_status
\* lines 124-135, the body of the loop for one history record
Reclassify_blind(job) == job
Reclassify(job) ==
  IF job.status = "running" /\ job.pid # None
  THEN IF ProcStatus(job.pid) = "nosuch"
       THEN [job EXCEPT !.status = "failed", !.pid = None]
       ELSE IF ProcStatus(job.pid) \in {"zombie", "dead"}
       THEN [job EXCEPT !.status = "executed", !.pid = None]
       ELSE IF ~is_running(job.pid)
       THEN [job EXCEPT !.status = "failed", !.pid = None]
       ELSE job
  ELSE job

\* lines 122-137: reclassify every record, keep those not executed
UpdatedJobHistory_keepall(h) == [i \in 1..Len(h) |-> Reclassify(h[i])]
UpdatedJobHistory(h) ==
  SelectSeq([i \in 1..Len(h) |-> Reclassify(h[i])],
            LAMBDA j: j.status # "executed")

UpdateJobStatus ==
  /\ history' = UpdatedJobHistory(history)
  /\ Did("update", 0)
  /\ UNCHANGED <<queue, procs, disp, issued>>

\* --------------------------------------------------------- prioritize_job
PrioritizedQueue_noremove(q, job_id) ==
  LET i == FirstWithId(q, job_id)
  IN IF i = 0 THEN q ELSE appendleft(q, q[i])
PrioritizedQueue(q, job_id) ==
  LET i == FirstWithId(q, job_id)
  IN IF i = 0 THEN q ELSE appendleft(RemoveFirst(q, q[i]), q[i])

\* last.id is the id reported by line 198 ("Job N has been prioritized"),
\* 0 when no queue entry has the id and nothing is saved or reported
PrioritizeJob(job_id) ==
  /\ queue' = PrioritizedQueue(queue, job_id)
  /\ Did("prioritize", IF FirstWithId(queue, job_id) = 0 THEN 0 ELSE job_id)
  /\ UNCHANGED <<history, procs, disp, issued>>

\* --------------------------------------------------- clear_jobs_by_status
WithoutStatus_inverted(s, status) == SelectSeq(s, LAMBDA j: j.status = status)
WithoutStatus(s, status) == SelectSeq(s, LAMBDA j: j.status # status)

ClearJobsByStatus(status) ==
  /\ queue' = WithoutStatus(queue, status)
  /\ history' = WithoutStatus(history, status)
  /\ Did("clear_" \o status, 0)
  /\ UNCHANGED <<procs, disp, issued>>

\* ------------------------------------------------------------------ Next
Next ==
  \/ \E u \in Users, c \in Commands, p \in Priorities, m \in Memories,
        k \in Computes: SubmitJob(u, c, p, m, k)
  \/ \E d \in Dispatchers: RunNextEmpty(d)
  \/ \E d \in Dispatchers, a \in Available: RunNextHold(d, a)
  \/ \E d \in Dispatchers, a \in Available: RunNextAdmit(d, a)
  \/ \E d \in Dispatchers, a \in Available: RunNextLaunchFail(d, a)
  \/ \E d \in Dispatchers: Poll(d)
  \/ \E d \in Dispatchers: Checkpoint(d)
  \/ \E d \in Dispatchers: Finalize(d)
  \/ \E pid \in 1..MaxSubmit + 1, rc \in ReturnCodes: ChildExit(pid, rc)
  \/ \E d \in Dispatchers: Crash(d)
  \/ \E pid \in 1..MaxSubmit + 1: ReapOrphan(pid)
  \/ UpdateJobStatus
  \/ \E id \in JobIds: PrioritizeJob(id)
  \/ \E s \in Statuses: ClearJobsByStatus(s)

Spec == Init /\ [][Next]_vars

\* ------------------------------------------------- fair run invocations
\* No run invocation is killed; a run invocation that has launched its child
\* keeps being scheduled (poll) and its blocking flock is eventually granted
\* (checkpoint, final update), however many other transactions take place.
LivePoll(d) == PollStep(d) /\ Free("poll", 0)

LiveCheckpoint(d) == CheckpointStep(d) /\ Free("checkpoint", 0)

LiveFinalize(d) ==
  /\ FinalizeStep(d)
  /\ LET job == FinalJob(disp[d].job, disp[d].returncode)
     IN Free(FinalOp(job), job.job_id)

LiveSubmitJob(user, command, priority, memory, compute) ==
  steps < MaxLiveSteps /\ SubmitJob(user, command, priority, memory, compute)

LiveRunNextAdmit(d, available) ==
  steps < MaxLiveSteps /\ RunNextAdmit(d, available)

LiveChildExit(pid, returncode) ==
  steps < MaxLiveSteps /\ ChildExit(pid, returncode)

LiveUpdateJobStatus == steps < MaxLiveSteps /\ UpdateJobStatus

LiveClearJobsByStatus(status) ==
  steps < MaxLiveSteps /\ ClearJobsByStatus(status)

NextLive ==
  \/ \E u \in Users, c \in Commands, p \in Priorities, m \in Memories,
        k \in Computes: LiveSubmitJob(u, c, p, m, k)
  \/ \E d \in Dispatchers, a \in Available: LiveRunNextAdmit(d, a)
  \/ \E pid \in 1..MaxSubmit, rc \in ReturnCodes: LiveChildExit(pid, rc)
  \/ \E d \in Dispatchers: LivePoll(d)
  \/ \E d \in Dispatchers: LiveCheckpoint(d)
  \/ \E d \in Dispatchers: LiveFinalize(d)
  \/ LiveUpdateJobStatus
  \/ \E s \in Statuses: LiveClearJobsByStatus(s)

SpecLive ==
  /\ Init
  /\ [][NextLive]_vars
  /\ \A d \in Dispatchers:
       /\ WF_vars(LivePoll(d))
       /\ WF_vars(LiveCheckpoint(d))
       /\ WF_vars(LiveFinalize(d))

\* ------------------------------------------- the transaction protocol
\* The same commands, one statement of the locking protocol per step: each
\* invocation enters "with job_lock", takes the flock, loads, saves what it
\* computed from what it loaded, and unlocks.
CommandNames == {"submit", "run", "update", "prioritize", "clear", "list"}

LockStep ==
  /\ steps < MaxLockSteps
  /\ steps' = steps + 1
  /\ UNCHANGED <<last, disp>>

\* flock(lockfile, LOCK_EX) returns only when no other open file holds it
LockFree_shared(holders) == TRUE
LockFree(holders) == holders = {}

PendingSubmits ==
  Cardinality({i \in Invocations: inv[i].pc # "idle" /\ inv[i].cmd = "submit"})

\* "with job_lock": lines 61, 73, 119, 160, 190, 203
LockEnter(i, cmd, status, job_id) ==
  /\ inv[i].pc = "idle"
  /\ mutex[ProcOf(i)] = 0
  /\ cmd = "submit" => Len(issued) + PendingSubmits < MaxSubmit
  /\ (cmd = "clear") = (status # "")
  /\ (cmd = "prioritize") = (job_id # 0)
  /\ mutex' = [mutex EXCEPT ![ProcOf(i)] = i]
  /\ inv' = [inv EXCEPT ![i] = [IdleInv EXCEPT !.pc = "flock", !.cmd = cmd,
                                               !.status = status,
                                               !.job_id = job_id]]
  /\ LockStep
  /\ UNCHANGED <<queue, history, procs, issued, flock>>

\* flock(lockfile, LOCK_EX): lines 62, 74, 90, 99, 120, 161, 191, 204
LockFlock(i) ==
  /\ inv[i].pc = "flock"
  /\ LockFree(flock)
  /\ flock' = flock \cup {i}
  /\ inv' = [inv EXCEPT ![i].pc = "load"]
  /\ LockStep
  /\ UNCHANGED <<queue, history, procs, issued, mutex>>

\* load_jobs(); list, and run on an empty queue, save nothing
LockLoad(i) ==
  /\ inv[i].pc = "load"
  /\ inv' = [inv EXCEPT ![i].lq = queue, ![i].lh = history,
                        ![i].pc = IF \/ inv[i].cmd = "list"
                                     \/ /\ inv[i].cmd = "run"
                                        /\ inv[i].phase = "first"
                                        /\ queue = <<>>
                                  THEN "unlock" ELSE "save"]
  /\ LockStep
  /\ UNCHANGED <<queue, history, procs, issued, flock, mutex>>

\* submit_job lines 64-68
LockSaveSubmit(i, user, command, priority, memory, compute) ==
  /\ inv[i].pc = "save"
  /\ inv[i].cmd = "submit"
  /\ LET job == Job(NewJobId(inv[i].lh), user, command, priority, memory,
                    compute, Len(issued) + 1)
     IN /\ queue' = Append(inv[i].lq, job)
        /\ history' = Append(inv[i].lh, job)
        /\ issued' = Append(issued, job.job_id)
  /\ inv' = [inv EXCEPT ![i].pc = "unlock"]
  /\ LockStep
  /\ UNCHANGED <<procs, flock, mutex>>

\* run_next_job lines 77-84 and 111-113
LockSaveRun(i, available) ==
  /\ inv[i].pc = "save"
  /\ inv[i].cmd = "run"
  /\ inv[i].phase = "first"
  /\ IF available >= Head(inv[i].lq).memory
     THEN LET pid == Len(procs) + 1
              job == RunningJob(Head(inv[i].lq), pid)
          IN /\ procs' = Append(procs, [st |-> "live", rc |-> 0,
                                        job_id |-> job.job_id,
                                        obj |-> job.obj])
             /\ queue' = popleft(inv[i].lq)
             /\ history' = ReplaceInHistory(inv[i].lh, job)
             /\ inv' = [inv EXCEPT ![i].pc = "unlock", ![i].job = job,
                                   ![i].pid = pid]
     ELSE /\ queue' = HeldQueue(inv[i].lq)
          /\ history' = inv[i].lh
          /\ inv' = [inv EXCEPT ![i].pc = "unlock"]
          /\ UNCHANGED procs
  /\ LockStep
  /\ UNCHANGED <<issued, flock, mutex>>

\* run_next_job lines 92-94 (checkpoint) and 101-108 (final update)
LockSaveSupervise(i) ==
  /\ inv[i].pc = "save"
  /\ inv[i].cmd = "run"
  /\ inv[i].phase # "first"
  /\ LET job == IF inv[i].phase = "final"
                THEN FinalJob(inv[i].job, inv[i].returncode)
                ELSE inv[i].job
     IN /\ queue' = inv[i].lq
        /\ history' = ReplaceInHistory(inv[i].lh, job)
  /\ inv' = [inv EXCEPT ![i].pc = "unlock"]
  /\ LockStep
  /\ UNCHANGED <<procs, issued, flock, mutex>>

\* update_job_status line 138, prioritize_job line 197 (only when the id is
\* found), clear_jobs_by_status line 211
LockSaveOther(i) ==
  /\ inv[i].pc = "save"
  /\ inv[i].cmd \in {"update", "prioritize", "clear"}
  /\ IF inv[i].cmd = "update"
     THEN queue' = inv[i].lq /\ history' = UpdatedJobHistory(inv[i].lh)
     ELSE IF inv[i].cmd = "clear"
     THEN /\ queue' = WithoutStatus(inv[i].lq, inv[i].status)
          /\ history' = WithoutStatus(inv[i].lh, inv[i].status)
     ELSE IF FirstWithId(inv[i].lq, inv[i].job_id) # 0
     THEN /\ queue' = PrioritizedQueue(inv[i].lq, inv[i].job_id)
          /\ history' = inv[i].lh
     ELSE UNCHANGED <<queue, history>>
  /\ inv' = [inv EXCEPT ![i].pc = "unlock"]
  /\ LockStep
  /\ UNCHANGED <<procs, issued, flock, mutex>>

\* flock(lockfile, LOCK_UN) or the close of the lock file at the end of the
\* with block.  A run that launched its child goes on to line 88 inside
\* "with job_lock"; every other path leaves the with block.
LockUnlock(i) ==
  /\ inv[i].pc = "unlock"
  /\ flock' = flock \ {i}
  /\ IF inv[i].cmd = "run" /\ inv[i].pid # None /\ inv[i].phase # "final"
     THEN /\ inv' = [inv EXCEPT ![i].pc = "poll"]
          /\ UNCHANGED mutex
     ELSE /\ inv' = [inv EXCEPT ![i] = IdleInv]
          /\ mutex' = [mutex EXCEPT ![ProcOf(i)] = 0]
  /\ LockStep
  /\ UNCHANGED <<queue, history, procs, issued>>

\* line 88: process.poll(), then line 89 or line 98
LockPoll(i) ==
  /\ inv[i].pc = "poll"
  /\ IF procs[inv[i].pid].st = "live"
     THEN /\ inv' = [inv EXCEPT ![i].pc = "flock", ![i].phase = "checkpoint"]
          /\ UNCHANGED procs
     ELSE /\ procs' = [procs EXCEPT ![inv[i].pid].st = "gone"]
          /\ inv' = [inv EXCEPT ![i].pc = "flock", ![i].phase = "final",
                                ![i].returncode = procs[inv[i].pid].rc]
  /\ LockStep
  /\ UNCHANGED <<queue, history, issued, flock, mutex>>

LockChildExit(pid, returncode) ==
  /\ pid \in 1..Len(procs)
  /\ procs[pid].st = "live"
  /\ procs' = [procs EXCEPT ![pid].st = "zombie", ![pid].rc = returncode]
  /\ LockStep
  /\ UNCHANGED <<queue, history, issued, flock, mutex, inv>>

NextLock ==
  \/ \E i \in Invocations, cmd \in CommandNames,
        st \in Statuses \cup {""}, id \in JobIds \cup {0}:
       LockEnter(i, cmd, st, id)
  \/ \E i \in Invocations: LockFlock(i)
  \/ \E i \in Invocations: LockLoad(i)
  \/ \E i \in Invocations, u \in Users, c \in Commands, p \in Priorities,
        m \in Memories, k \in Computes: LockSaveSubmit(i, u, c, p, m, k)
  \/ \E i \in Invocations, a \in Available: LockSaveRun(i, a)
  \/ \E i \in Invocations: LockSaveSupervise(i)
  \/ \E i \in Invocations: LockSaveOther(i)
  \/ \E i \in Invocations: LockUnlock(i)
  \/ \E i \in Invocations: LockPoll(i)
  \/ \E pid \in 1..MaxSubmit, rc \in ReturnCodes: LockChildExit(pid, rc)

\* the document after one submit, no invocation under way
InitLock ==
  /\ \E u \in Users, c \in Commands, p \in Priorities, m \in Memories,
        k \in Computes:
       /\ queue = <<Job(1, u, c, p, m, k, 1)>>
       /\ history = <<Job(1, u, c, p, m, k, 1)>>
  /\ procs = <<>>
  /\ disp = [d \in Dispatchers |-> Idle]
  /\ issued = <<1>>
  /\ last = [op |-> "submit", id |-> 1]
  /\ steps = 0
  /\ flock = {}
  /\ mutex = [o \in OsProcs |-> 0]
  /\ inv = [i \in Invocations |-> IdleInv]

SpecLock == InitLock /\ [][NextLock]_vars

\* ================================================================ claims
RunningIn(h, obj) ==
  \E i \in 1..Len(h): h[i].obj = obj /\ h[i].status = "running"

FailedIn(h, obj) ==
  \E i \in 1..Len(h): h[i].obj = obj /\ h[i].status = "failed"

Launched(obj) == \E p \in 1..Len(procs): procs[p].obj = obj

Records == {queue[i] : i \in 1..Len(queue)} \cup
           {history[i] : i \in 1..Len(history)}

\* C1: in every persisted state no two History entries share a job_id.
C1_UniqueHistoryIds ==
  \A i, k \in 1..Len(history): i # k => history[i].job_id # history[k].job_id

\* C2: a job_id handed out by submit is never handed out again by a later
\* submit.
C2_NeverReissued ==
  \A i, k \in 1..Len(issued): i # k => issued[i] # issued[k]

\* C3: every Queue entry has status queued and History holds an entry with
\* the same job_id and identical field values.
C3_QueueHistoryCoherent ==
  \A i \in 1..Len(queue):
    /\ queue[i].status = "queued"
    /\ \E k \in 1..Len(history): Fields(history[k]) = Fields(queue[i])

\* C4: for every job record in Queue or History, pid is present if and only
\* if status is running.
C4_PidIffRunning ==
  \A j \in Records: (j.pid # None) <=> (j.status = "running")

\* C4 witness: a running record with its pid next to a finished record with
\* the pid cleared, while a run invocation is still supervising.
C4_Witness ==
  /\ \E j \in Records: j.status = "running" /\ j.pid # None
  /\ \E j \in Records: j.status \in {"executed", "failed"} /\ j.pid = None
  /\ \E d \in Dispatchers: disp[d].pc # "idle"

\* C5 (as claimed): a job is launched at most once, and a History record of
\* a launched job that is no longer running never shows running again.
C5_NeverRunningAgain ==
  [][\A obj \in 1..MaxSubmit:
       (Launched(obj) /\ ~RunningIn(history, obj)) =>
         ~RunningIn(history', obj)]_vars

\* C5 (amended): no job is launched twice; a History record of a launched
\* job that is no longer running shows running again only when the
\* checkpoint of the run invocation still supervising it re-writes it.
C5_LaunchedAtMostOnce ==
  [][/\ \A p, q \in 1..Len(procs'):
          p # q => procs'[p].obj # procs'[q].obj
     /\ \A obj \in 1..MaxSubmit:
          (Launched(obj) /\ ~RunningIn(history, obj)
             /\ RunningIn(history', obj)) =>
            /\ last'.op = "checkpoint"
            /\ \E d \in Dispatchers:
                 disp[d].pc = "checkpoint" /\ disp[d].job.obj = obj]_vars

\* C5 witness: two run invocations in flight, each with its own job, while
\* a third job is still queued.
C5_Witness ==
  /\ Len(procs) >= 2
  /\ \A d \in 1..2: disp[d].pc # "idle"
  /\ disp[1].job.obj # disp[2].job.obj
  /\ queue # <<>>

\* C6: when the head job does not fit, run leaves Queue the same sequence,
\* changes no record of Queue or History, launches no process and admits no
\* other queued job.
C6_HoldChangesNothing ==
  [][last'.op = "hold" =>
       /\ queue' = queue
       /\ history' = history
       /\ procs' = procs
       /\ disp' = disp]_vars

\* C6 witness: the head was held back although the job behind it is smaller.
C6_Witness ==
  /\ last.op = "hold"
  /\ Len(queue) >= 2
  /\ queue[1].memory > queue[2].memory
  /\ queue[1].job_id = last.id

\* C7: reconcile sets every running record whose process is absent or is a
\* zombie to failed with pid cleared, and never to executed.
C7_DeadBecomesFailed ==
  [][last'.op = "update" =>
       \A i \in 1..Len(history):
         (/\ history[i].status = "running"
          /\ history[i].pid # None
          /\ ProcStatus(history[i].pid) \in {"nosuch", "zombie"}) =>
           \E k \in 1..Len(history'):
             history'[k] = [history[i] EXCEPT !.status = "failed",
                                              !.pid = None]]_vars

\* C8: in the state written by reconcile no History entry is running with a
\* pid that is not a live process.
C8_NoStaleRunning ==
  last.op = "update" =>
    \A k \in 1..Len(history):
      (history[k].status = "running" /\ history[k].pid # None) =>
        ProcStatus(history[k].pid) = "live"

\* C8 witness: reconcile has just failed a job whose process exited with
\* code 0 and is gone, and left a job with a live process running.
C8_Witness ==
  /\ last.op = "update"
  /\ \E k \in 1..Len(history), p \in 1..Len(procs):
       /\ history[k].status = "failed"
       /\ procs[p].obj = history[k].obj
       /\ procs[p].st = "gone"
       /\ procs[p].rc = 0
  /\ \E k \in 1..Len(history):
       history[k].status = "running" /\ is_running(history[k].pid)

C10_FailedStays ==
  [][\A obj \in 1..MaxSubmit:
       (FailedIn(history, obj) /\ last'.op # "clear_failed") =>
         FailedIn(history', obj)]_vars

\* C11: when the command cannot be started, run leaves the job in History as
\* failed without pid and no longer in Queue; it is never left running.
C11_LaunchFailureRecorded ==
  last.op = "launchfail" =>
    /\ \A i \in 1..Len(queue): queue[i].job_id # last.id
    /\ \E k \in 1..Len(history):
         /\ history[k].job_id = last.id
         /\ history[k].status = "failed"
         /\ history[k].pid = None

\* a running record whose run invocation is gone (no invocation supervises
\* the pid any more)
Stale(j) == j.status = "running" /\ j.pid # None /\ ~Owned(j.pid)

\* C14: the running record of a job whose run invocation died stays as it
\* is, with the stale pid, through every later submit, run and prioritize
\* transaction; a reconcile that finds the process gone sets it to failed
\* with pid cleared.
C14_StaleUntilReconcile ==
  [][\A k \in 1..Len(history):
       Stale(history[k]) =>
         /\ last'.op \in {"submit", "empty", "hold", "launch", "launchfail",
                          "poll", "checkpoint", "final_executed",
                          "final_failed", "prioritize", "env"} =>
              \E m \in 1..Len(history'): history'[m] = history[k]
         /\ (last'.op = "update" /\ ProcStatus(history[k].pid) = "nosuch") =>
              \E m \in 1..Len(history'):
                history'[m] = [history[k] EXCEPT !.status = "failed",
                                                 !.pid = None]]_vars

MovedToFront(q, i) == <<q[i]>> \o SubSeq(q, 1, i - 1) \o SubSeq(q, i + 1, Len(q))

\* C15: prioritize moves the queued job with the given id to the front of
\* Queue, keeps the order of the other entries and leaves History unchanged;
\* without such an entry Queue and History are unchanged; the next admitted
\* run launches the job at the front.
C15_PrioritizeMovesToFront ==
  [][/\ last'.op = "prioritize" =>
          /\ history' = history
          /\ IF \E i \in 1..Len(queue): queue[i].job_id = last'.id
             THEN \E i \in 1..Len(queue):
                    /\ queue[i].job_id = last'.id
                    /\ queue' = MovedToFront(queue, i)
             ELSE queue' = queue
     /\ last'.op = "launch" =>
          /\ procs'[Len(procs')].obj = queue[1].obj
          /\ queue' = SubSeq(queue, 2, Len(queue))]_vars

\* C15 witness: the job submitted last has just been moved from the back of
\* a queue of three to its front, the other two in their old order.
C15_Witness ==
  /\ last.op = "prioritize"
  /\ Len(queue) = 3
  /\ queue[1].job_id = last.id
  /\ queue[1].obj = 3
  /\ queue[2].obj = 1
  /\ queue[3].obj = 2

\* the entries of old whose status differs from status, in their order
KeptOf(old, status) == {i \in 1..Len(old): old[i].status # status}

IsCleared(new, old, status) ==
  /\ Len(new) = Cardinality(KeptOf(old, status))
  /\ \A i \in KeptOf(old, status):
       new[Cardinality({k \in KeptOf(old, status): k <= i})] = old[i]

\* C16: clear removes all and only the entries with the given status from
\* Queue and History; the others remain unchanged in their relative order.
C16_ClearRemovesExactlyStatus ==
  [][\A st \in Statuses:
       last'.op = "clear_" \o st =>
         /\ IsCleared(queue', queue, st)
         /\ IsCleared(history', history, st)]_vars

\* C16 witness: clear of status running has dropped the record of a launched
\* job from between two others, which are kept in order.
C16_Witness ==
  /\ last.op = "clear_running"
  /\ Len(procs) = 1
  /\ Len(issued) = 3
  /\ Len(history) = 2
  /\ history[1].obj < history[2].obj
  /\ \A k \in 1..Len(history): history[k].obj # procs[1].obj

\* C17: submit appends exactly one new job, queued, without pid and with
\* job_id equal to the number of History entries loaded plus one, at the
\* tail of Queue and of History, and leaves every existing entry unchanged.
C17_SubmitAppendsOne ==
  [][last'.op = "submit" =>
       /\ Len(queue') = Len(queue) + 1
       /\ Len(history') = Len(history) + 1
       /\ SubSeq(queue', 1, Len(queue)) = queue
       /\ SubSeq(history', 1, Len(history)) = history
       /\ queue'[Len(queue')] = history'[Len(history')]
       /\ history'[Len(history')].status = "queued"
       /\ history'[Len(history')].pid = None
       /\ history'[Len(history')].job_id = Len(history) + 1
       /\ last'.id = Len(history) + 1]_vars

\* C17 witness: a submit after History had shrunk: the third job submitted
\* got job_id 2 and sits at the tail of both collections.
C17_Witness ==
  /\ last.op = "submit"
  /\ Len(issued) = 3
  /\ last.id = 2
  /\ Len(history) = 2
  /\ history[2].obj = 3
  /\ queue # <<>>
  /\ queue[Len(queue)].obj = 3

StatusChanges ==
  {<<"queued", "running">>, <<"running", "executed">>,
   <<"running", "failed">>}

\* C18: the persisted status of a job changes only along queued -> running,
\* running -> executed and running -> failed.
C18_StatusOnlyForward ==
  [][\A i \in 1..Len(history), k \in 1..Len(history'):
       history[i].obj = history'[k].obj =>
         \/ history[i].status = history'[k].status
         \/ <<history[i].status, history'[k].status>> \in StatusChanges]_vars

OthersOf(s, obj) == SelectSeq(s, LAMBDA j: j.obj # obj)

\* the job whose record the run transaction of this step writes
OwnJob(obj) ==
  \/ last'.op = "launch" /\ queue # <<>> /\ queue[1].obj = obj
  \/ /\ last'.op \in {"checkpoint", "final_executed", "final_failed"}
     /\ \E d \in Dispatchers: disp'[d] # disp[d] /\ disp[d].job.obj = obj

\* C20: the History replace of a run invocation (launch, checkpoint, final
\* update) changes only the record of its own job: the records of every
\* other job in Queue and in History are saved unchanged, and History then
\* holds exactly one record of the dispatched job.
C20_ReplaceTouchesOwnJobOnly ==
  [][last'.op \in {"launch", "checkpoint", "final_executed", "final_failed"} =>
       \E obj \in 1..MaxSubmit:
         /\ OwnJob(obj)
         /\ OthersOf(queue', obj) = OthersOf(queue, obj)
         /\ OthersOf(history', obj) = OthersOf(history, obj)
         /\ Cardinality({k \in 1..Len(history'): history'[k].obj = obj}) = 1]_vars

\* the child of the run invocation supervising this job has terminated
Terminated(obj, returncode) ==
  \E d \in Dispatchers:
    /\ disp[d].pc # "idle"
    /\ disp[d].job.obj = obj
    /\ procs[disp[d].pid].st = "zombie"
    /\ procs[disp[d].pid].rc = returncode

\* the final update of this job has just been saved
Finalized(obj, returncode) ==
  /\ last.op = (IF returncode = 0 THEN "final_executed" ELSE "final_failed")
  /\ \E k \in 1..Len(history):
       /\ history[k].obj = obj
       /\ history[k].job_id = last.id
       /\ history[k].status = (IF returncode = 0 THEN "executed" ELSE "failed")
       /\ history[k].pid = None
       /\ \A m \in 1..Len(history):
            history[m].job_id = history[k].job_id => m = k

\* C19: with fair run invocations that are not killed, every admitted job
\* whose child terminates gets its final update, which saves a History with
\* exactly one record of the job, without pid, executed for exit code 0 and
\* failed otherwise.
C19_TerminatedGetsFinalUpdate ==
  \A obj \in 1..MaxSubmit, rc \in ReturnCodes:
    Terminated(obj, rc) ~> Finalized(obj, rc)

\* C19 witness: the final update of a job that exited with a non-zero code
\* has just been saved, next to the record of another job.
C19_Witness ==
  /\ \E obj \in 1..MaxSubmit: Finalized(obj, 1)
  /\ Len(history) >= 2

\* C12: every load and save happens while the invocation holds the flock,
\* at most one invocation holds it, and no other invocation saves between
\* the load and the save of a transaction (what is saved is computed from
\* the document as it is at the save).
C12_TransactionsSerialised ==
  /\ Cardinality(flock) <= 1
  /\ \A i \in Invocations:
       /\ inv[i].pc \in {"load", "save", "unlock"} => i \in flock
       /\ inv[i].pc = "save" => inv[i].lq = queue /\ inv[i].lh = history

\* C12 witness: one invocation is between its load and its save of a
\* non-empty document while an invocation of another process waits for the
\* flock.
C12_Witness ==
  \E i, k \in Invocations:
    /\ ProcOf(i) # ProcOf(k)
    /\ inv[i].pc = "save"
    /\ inv[k].pc = "flock"
    /\ history # <<>>

\* C13: a run invocation that waits for its child holds neither the flock
\* nor the in-process mutex.
C13_WaitHoldsNoLock ==
  \A i \in Invocations:
    inv[i].pc = "poll" => i \notin flock /\ mutex[ProcOf(i)] # i

====
